---- MODULE Spec2Model ----
(***************************************************************************)
(* A model of three pieces of the repository:                              *)
(*   - IssueTypeFilter.passes      (sentry/rules/filters/issue_type.py)    *)
(*   - MSTeamsIssueMessageBuilder  (sentry/integrations/msteams/           *)
(*                                  card_builder/issues.py)                *)
(*   - the rule engine's dispatch ledger, which the specification          *)
(*     describes and whose code is outside the source tree                 *)
(* Python values are tagged records; a call's outcome is either a returned *)
(* value or a raised exception.                                            *)
(***************************************************************************)
EXTENDS Integers, Sequences, FiniteSets, TLC

VARIABLES
    option,        \* what self.get_option("value") yields for the rule
    event,         \* the event handed to IssueTypeFilter.passes
    passesResult,  \* outcome of the last passes() call
    builder,       \* the MSTeamsIssueMessageBuilder: group, event, rules, integration
    cardCall,      \* the builder method called last, with its argument
    cardResult,    \* outcome of that call
    queue,         \* the engine's bounded queue of deliveries: [id, n]
    submitted,     \* per event id, how many times it was submitted
    eventState,    \* per event id: NONE, PENDING, EVALUATING, DONE
    doneAt,        \* per event id, the submissions made when it became DONE
    workers,       \* per worker: pc, the delivery in hand, the rule index
    dispatchRecord,\* the ledger of (event id, rule id) keys
    sent           \* per (event id, rule id), the deliveries that invoked the actions

filterVars == <<option, event, passesResult>>
cardVars == <<builder, cardCall, cardResult>>
engineVars == <<queue, submitted, eventState, doneAt, workers, dispatchRecord, sent>>
vars == <<filterVars, cardVars, engineVars>>

\* ---------------------------------------------------------------- bounds
MaxOptLen == 2     \* longest stored option string
MaxGroups == 2     \* most groups in event.groups
MaxTime == 2       \* latest instant of group.last_seen and event.datetime
MaxSubmits == 2    \* most submissions of one event id
MaxQueue == 2      \* capacity of the engine's queue

\* ------------------------------------------------------- python values
NoneVal == [tag |-> "None"]
NotCalled == [kind |-> "not_called"]
NoCall == [fn |-> "none"]
Return(v) == [kind |-> "return", value |-> v]
Raise(e) == [kind |-> "raise", exc |-> e]

List(items) == [tag |-> "list", items |-> items]

\* Python truthiness of the values the model uses: None, the empty list and
\* the empty string are falsy, every other object is truthy.
Truthy(v) ==
    IF v.tag = "None" THEN FALSE
    ELSE IF v.tag = "list" THEN Len(v.items) > 0
    ELSE IF v.tag = "str" THEN Len(v.chars) > 0
    ELSE TRUE

SeqsUpTo(S, n) == UNION {[1..k -> S] : k \in 0..n}

\* ------------------------------------------------- IssueTypeFilter
\* The values of the GroupType enum members.
GroupTypeValues == {1, 7, 10}

GroupTypeMember(n) == [tag |-> "GroupType", value |-> n]

Digits == <<"0", "1", "2", "3", "4", "5", "6", "7", "8", "9">>

DigitValue(c) == (CHOOSE i \in DOMAIN Digits : Digits[i] = c) - 1

IsDigit(c) == \E i \in DOMAIN Digits : Digits[i] = c

RECURSIVE DecimalValue(_)
DecimalValue(chars) ==
    IF chars = <<>> THEN 0
    ELSE 10 * DecimalValue(SubSeq(chars, 1, Len(chars) - 1))
         + DigitValue(chars[Len(chars)])

\* int(x): None is a TypeError, a string must be an optionally signed run of
\* decimal digits, an integer is itself.
ParseInt(x) ==
    IF x.tag = "None" THEN Raise("TypeError")
    ELSE IF x.tag = "int" THEN Return(x.n)
    ELSE LET signed == Len(x.chars) > 0 /\ x.chars[1] = "-"
             body == IF signed THEN Tail(x.chars) ELSE x.chars
         IN IF Len(body) > 0 /\ \A i \in DOMAIN body : IsDigit(body[i])
            THEN Return(IF signed THEN 0 - DecimalValue(body) ELSE DecimalValue(body))
            ELSE Raise("ValueError")

\* GroupType(n): the member with that value, or ValueError.
GroupTypeOf(n) ==
    IF n \in GroupTypeValues THEN Return(GroupTypeMember(n)) ELSE Raise("ValueError")

\* value: GroupType = GroupType(int(self.get_option("value")))
ParseOption(opt) ==
    LET i == ParseInt(opt)
    IN IF i.kind = "raise" THEN i ELSE GroupTypeOf(i.value)

CaughtOnlyValueError == {"ValueError"}

\* except (TypeError, ValueError)
CaughtExceptions == {"TypeError", "ValueError"}

\* if event.group and event.group.issue_type
GroupDecides(ev) == Truthy(ev.group) /\ Truthy(ev.group.issue_type)

GroupsMatchFirstOnly(value, groups) ==
    Truthy(groups) /\ value = groups.items[1].issue_type

GroupsMatchAll(value, groups) ==
    \A i \in (IF Truthy(groups) THEN DOMAIN groups.items ELSE {}) :
        value = groups.items[i].issue_type

\* if event.groups: for group in event.groups: if value == group.issue_type
GroupsMatch(value, groups) ==
    Truthy(groups) /\ \E i \in DOMAIN groups.items : value = groups.items[i].issue_type

GroupResultFallsThrough(value, ev) ==
    Return(value = ev.group.issue_type \/ GroupsMatch(value, ev.groups))

\* return value == event.group.issue_type
GroupResult(value, ev) == Return(value = ev.group.issue_type)

passes(opt, ev) ==
    LET parsed == ParseOption(opt)
    IN IF parsed.kind = "raise"
       THEN IF parsed.exc \in CaughtExceptions THEN Return(FALSE) ELSE parsed
       ELSE IF GroupDecides(ev) THEN GroupResult(parsed.value, ev)
       ELSE IF GroupsMatch(parsed.value, ev.groups) THEN Return(TRUE)
       ELSE Return(FALSE)

\* f"{gt.value}": the decimal text of a non-negative integer.
RECURSIVE ToDecimal(_)
ToDecimal(n) ==
    IF n < 10 THEN <<Digits[n + 1]>>
    ELSE Append(ToDecimal(n \div 10), Digits[(n % 10) + 1])

\* TYPE_CHOICES keys: the option texts the rule form offers.
TYPE_CHOICES == {ToDecimal(v) : v \in GroupTypeValues}

\* ----- inputs of the filter
OptionChars == {"0", "1", "7", "x", "-"}
OptionInts == {-1, 0, 1, 7, 10, 99}

Options ==
    {NoneVal}
    \cup {[tag |-> "int", n |-> n] : n \in OptionInts}
    \cup {[tag |-> "str", chars |-> s] : s \in SeqsUpTo(OptionChars, MaxOptLen)}

IssueTypes == {GroupTypeMember(n) : n \in GroupTypeValues} \cup {NoneVal}

Groups == {[tag |-> "Group", issue_type |-> t] : t \in IssueTypes}

Events ==
    {[tag |-> "Event", group |-> g, groups |-> gs] :
        g \in Groups \cup {NoneVal},
        gs \in {List(s) : s \in SeqsUpTo(Groups, MaxGroups)} \cup {NoneVal}}

FilterInit ==
    /\ option \in Options
    /\ event \in Events
    /\ passesResult = NotCalled

Passes ==
    /\ passesResult = NotCalled
    /\ passesResult' = passes(option, event)
    /\ UNCHANGED <<option, event, cardVars, engineVars>>

\* No rule is being evaluated.
FilterIdle ==
    /\ option = NoneVal
    /\ event = NoneVal
    /\ passesResult = NotCalled

FilterNext == Passes

\* ------------------------------------- MSTeamsIssueMessageBuilder
\* GroupStatus members; PENDING_DELETION stands for the members that are
\* neither RESOLVED nor IGNORED nor UNRESOLVED.
GroupStatuses == {"UNRESOLVED", "RESOLVED", "IGNORED", "PENDING_DELETION"}

\* A member of IssueConstants (a title, an input id, a choice list, ME).
IssueConstants(name) == [tag |-> "IssueConstants", name |-> name]

\* build_input_choice_card: a card with a bold title, one input choice set
\* and a single Submit action that carries the payload.
build_input_choice_card(title, data, input_id, choices, default_choice) ==
    [tag |-> "AdaptiveCard",
     title |-> title,
     text |-> [tag |-> "Input.ChoiceSet", id |-> input_id, choices |-> choices,
               default_choice |-> default_choice],
     actions |-> <<[type |-> "SUBMIT", title |-> title, data |-> data]>>]

get_timestamp_ignores_event(self) == self.group.last_seen

\* max(ts, self.event.datetime) if self.event else ts
get_timestamp(self) ==
    LET ts == self.group.last_seen
    IN IF Truthy(self.event)
       THEN (IF self.event.datetime > ts THEN self.event.datetime ELSE ts)
       ELSE ts

\* The payload nests under "payload"; self.event.group.id and
\* self.event.event_id need an event: without one the attribute access raises.
generate_action_payload(self, action_type) ==
    IF ~Truthy(self.event) THEN Raise("AttributeError")
    ELSE Return([payload |->
            [actionType |-> action_type,
             groupId |-> self.event.group_id,
             eventId |-> self.event.event_id,
             rules |-> self.rules,
             integrationId |-> self.integration]])

RECURSIVE order_by_id(_)
order_by_id(teams) ==
    IF teams = {} THEN <<>>
    ELSE LET first == CHOOSE t \in teams : \A u \in teams : t.id <= u.id
         IN <<first>> \o order_by_id(teams \ {first})

\* self.group.project.teams.all().order_by("slug")
RECURSIVE order_by_slug(_)
order_by_slug(teams) ==
    IF teams = {} THEN <<>>
    ELSE LET first == CHOOSE t \in teams : \A u \in teams : t.slug <= u.slug
         IN <<first>> \o order_by_slug(teams \ {first})

\* One (text, value) choice per team, in the order given.
TeamChoice(team) ==
    [text |-> [tag |-> "team_text", slug |-> team.slug],
     value |-> [tag |-> "team_value", id |-> team.id]]

MeChoice == [text |-> [tag |-> "literal", s |-> "Me"], value |-> IssueConstants("ME")]

get_teams_choices(self) ==
    LET teams == order_by_slug(self.group.teams)
    IN List(<<MeChoice>> \o [i \in DOMAIN teams |-> TeamChoice(teams[i])])

create_issue_action_block_swapped(self, condition, action, action_title, reverse_action, reverse_action_title, input_id, choices, default_choice) ==
    LET data == generate_action_payload(self, IF condition THEN action ELSE reverse_action)
    IN IF data.kind = "raise" THEN data
       ELSE IF condition
       THEN Return([type |-> "SHOW_CARD", title |-> action_title,
                    card |-> build_input_choice_card(action_title, data.value, input_id,
                                                     choices, default_choice)])
       ELSE Return([type |-> "SUBMIT", title |-> reverse_action_title,
                    data |-> data.value])

create_issue_action_block(self, condition, action, action_title, reverse_action, reverse_action_title, input_id, choices, default_choice) ==
    LET data == generate_action_payload(self, IF condition THEN reverse_action ELSE action)
    IN IF data.kind = "raise" THEN data
       ELSE IF condition
       THEN Return([type |-> "SUBMIT", title |-> reverse_action_title,
                    data |-> data.value])
       ELSE Return([type |-> "SHOW_CARD", title |-> action_title,
                    card |-> build_input_choice_card(action_title, data.value, input_id,
                                                     choices, default_choice)])

get_ignore_action_tests_resolved(self, status) ==
    create_issue_action_block(self, "RESOLVED" = status,
        "IGNORE", IssueConstants("IGNORE"),
        "UNRESOLVE", IssueConstants("STOP_IGNORING"),
        IssueConstants("IGNORE_INPUT_ID"), IssueConstants("IGNORE_INPUT_CHOICES"),
        NoneVal)

get_ignore_action(self, status) ==
    create_issue_action_block(self, "IGNORED" = status,
        "IGNORE", IssueConstants("IGNORE"),
        "UNRESOLVE", IssueConstants("STOP_IGNORING"),
        IssueConstants("IGNORE_INPUT_ID"), IssueConstants("IGNORE_INPUT_CHOICES"),
        NoneVal)

get_resolve_action(self, status) ==
    create_issue_action_block(self, "RESOLVED" = status,
        "RESOLVE", IssueConstants("RESOLVE"),
        "UNRESOLVE", IssueConstants("UNRESOLVE"),
        IssueConstants("RESOLVE_INPUT_ID"), IssueConstants("RESOLVE_INPUT_CHOICES"),
        NoneVal)

get_assign_action(self) ==
    LET teams_choices == get_teams_choices(self)
    IN create_issue_action_block(self, Truthy(self.group.assignee),
        "ASSIGN", IssueConstants("ASSIGN"),
        "UNASSIGN", IssueConstants("UNASSIGN"),
        IssueConstants("ASSIGN_INPUT_ID"), teams_choices,
        IssueConstants("ME"))

get_issue_actions_ignore_first(self) ==
    LET status == self.group.status
        resolve == get_resolve_action(self, status)
        ignore == get_ignore_action(self, status)
        assign == get_assign_action(self)
    IN IF resolve.kind = "raise" THEN resolve
       ELSE IF ignore.kind = "raise" THEN ignore
       ELSE IF assign.kind = "raise" THEN assign
       ELSE Return([type |-> "Container",
                    items |-> <<[type |-> "ActionSet",
                                 actions |-> <<ignore.value, resolve.value,
                                               assign.value>>]>>])

\* A container block holding one action set with the three actions; an
\* exception raised while building an action propagates.
get_issue_actions(self) ==
    LET status == self.group.status
        resolve == get_resolve_action(self, status)
        ignore == get_ignore_action(self, status)
        assign == get_assign_action(self)
    IN IF resolve.kind = "raise" THEN resolve
       ELSE IF ignore.kind = "raise" THEN ignore
       ELSE IF assign.kind = "raise" THEN assign
       ELSE Return([type |-> "Container",
                    items |-> <<[type |-> "ActionSet",
                                 actions |-> <<resolve.value, ignore.value,
                                               assign.value>>]>>])

\* The date block shows get_timestamp(); the model's instants are whole
\* seconds, which replace(microsecond=0) leaves as they are.
create_date_block(self) ==
    [type |-> "TextBlock",
     text |-> [tag |-> "DATE_FORMAT", date |-> get_timestamp(self)],
     size |-> "SMALL", weight |-> "LIGHTER", horizontalAlignment |-> "Center"]

\* A column set: the logo, the footer text, the date block.
create_footer_block(self) ==
    [type |-> "ColumnSet",
     columns |-> <<[type |-> "Image", height |-> "20px"],
                   [type |-> "Column",
                    items |-> <<[type |-> "TextBlock",
                                 text |-> [tag |-> "footer", rules |-> self.rules],
                                 size |-> "SMALL", weight |-> "LIGHTER"]>>],
                   create_date_block(self)>>]

\* The assignee note for a group that has an assignee, otherwise None.
create_assignee_block(self) ==
    LET assignee == self.group.assignee
    IN IF Truthy(assignee)
       THEN [type |-> "TextBlock",
             text |-> [tag |-> "ASSIGNEE_NOTE", assignee |-> assignee],
             size |-> "SMALL"]
       ELSE NoneVal

\* The description block, when there is a description text.
DescriptionFields(description_text) ==
    IF Truthy(description_text)
    THEN <<[type |-> "TextBlock", text |-> description_text,
            size |-> "MEDIUM", weight |-> "BOLDER"]>>
    ELSE <<>>

\* The card's title block: the linked title, large and bold.
TitleBlock ==
    [type |-> "TextBlock", text |-> [tag |-> "URL_FORMAT_STR"],
     size |-> "LARGE", weight |-> "BOLDER"]

build_note_after_actions(self, description_text) ==
    LET assignee_block == create_assignee_block(self)
        actions == get_issue_actions(self)
    IN IF actions.kind = "raise" THEN actions
       ELSE Return([tag |-> "AdaptiveCard",
                    title |-> TitleBlock,
                    fields |-> DescriptionFields(description_text)
                               \o <<create_footer_block(self)>>
                               \o <<actions.value>>
                               \o (IF assignee_block # NoneVal
                                   THEN <<assignee_block>> ELSE <<>>)])

\* build(): description_text is what build_attachment_text(group, event)
\* returned. The fields are appended in the order of the code; a block (a
\* non-empty mapping) is truthy, None is not; an exception raised while the
\* actions are built propagates.
build(self, description_text) ==
    LET assignee_block == create_assignee_block(self)
        actions == get_issue_actions(self)
    IN IF actions.kind = "raise" THEN actions
       ELSE Return([tag |-> "AdaptiveCard",
                    title |-> TitleBlock,
                    fields |-> DescriptionFields(description_text)
                               \o <<create_footer_block(self)>>
                               \o (IF assignee_block # NoneVal
                                   THEN <<assignee_block>> ELSE <<>>)
                               \o <<actions.value>>])

\* ----- inputs of the builder
\* What build_attachment_text may return: None, an empty or a non-empty text.
Descriptions ==
    {NoneVal, [tag |-> "str", chars |-> <<>>], [tag |-> "str", chars |-> <<"d">>]}

Times == 0..MaxTime

\* The project's teams: slugs are unique, and slug order differs from id order.
Teams == {[tag |-> "Team", slug |-> 1, id |-> 3],
          [tag |-> "Team", slug |-> 2, id |-> 1],
          [tag |-> "Team", slug |-> 3, id |-> 2]}

Assignees == {NoneVal, [tag |-> "User", id |-> 1], [tag |-> "Team", id |-> 1]}

CardGroups ==
    {[tag |-> "Group", status |-> st, assignee |-> a, last_seen |-> ls, teams |-> ts] :
        st \in GroupStatuses, a \in Assignees, ls \in Times, ts \in SUBSET Teams}

CardEvents ==
    {[tag |-> "Event", datetime |-> t, event_id |-> "e1", group_id |-> 1] : t \in Times}

Builders ==
    {[group |-> g, event |-> e, rules |-> <<1, 2>>, integration |-> 1] :
        g \in CardGroups, e \in CardEvents \cup {NoneVal}}

CardInit ==
    /\ builder \in Builders
    /\ cardCall = NoCall
    /\ cardResult = NotCalled

GetTimestamp ==
    /\ cardCall' = [fn |-> "get_timestamp"]
    /\ cardResult' = Return(get_timestamp(builder))
    /\ UNCHANGED <<builder, filterVars, engineVars>>

GetIgnoreAction ==
    \E status \in GroupStatuses :
        /\ cardCall' = [fn |-> "get_ignore_action", status |-> status]
        /\ cardResult' = get_ignore_action(builder, status)
        /\ UNCHANGED <<builder, filterVars, engineVars>>

GetResolveAction ==
    \E status \in GroupStatuses :
        /\ cardCall' = [fn |-> "get_resolve_action", status |-> status]
        /\ cardResult' = get_resolve_action(builder, status)
        /\ UNCHANGED <<builder, filterVars, engineVars>>

GetAssignAction ==
    /\ cardCall' = [fn |-> "get_assign_action"]
    /\ cardResult' = get_assign_action(builder)
    /\ UNCHANGED <<builder, filterVars, engineVars>>

GetIssueActions ==
    /\ cardCall' = [fn |-> "get_issue_actions"]
    /\ cardResult' = get_issue_actions(builder)
    /\ UNCHANGED <<builder, filterVars, engineVars>>

Build ==
    \E description_text \in Descriptions :
        /\ cardCall' = [fn |-> "build", description_text |-> description_text]
        /\ cardResult' = build(builder, description_text)
        /\ UNCHANGED <<builder, filterVars, engineVars>>

\* No card is being built.
CardIdle ==
    /\ builder = NoneVal
    /\ cardCall = NoCall
    /\ cardResult = NotCalled

CardNext ==
    \/ GetTimestamp
    \/ GetIgnoreAction
    \/ GetResolveAction
    \/ GetAssignAction
    \/ GetIssueActions
    \/ Build

\* ------------------------------------------------------ rule engine
\* The engine of sections 4.5, 5 and 6 of the specification: events are
\* submitted (possibly more than once), workers take deliveries from the
\* queue, evaluate every rule with the filter above and, on a match, claim
\* the (event id, rule id) key in the DispatchRecord before invoking the
\* rule's actions.
EventIds == {"e1", "e2"}

\* e1 belongs to one issue of type 7; e2 belongs to merged issues of types 1 and 7.
EngineEvent(e) ==
    IF e = "e1"
    THEN [tag |-> "Event",
          group |-> [tag |-> "Group", issue_type |-> GroupTypeMember(7)],
          groups |-> NoneVal]
    ELSE [tag |-> "Event",
          group |-> NoneVal,
          groups |-> List(<<[tag |-> "Group", issue_type |-> GroupTypeMember(1)],
                            [tag |-> "Group", issue_type |-> GroupTypeMember(7)]>>)]

\* Two rules, each one issue-type condition under matchPolicy ALL and one
\* notify action.
Rules ==
    <<[id |-> "r1", matchPolicy |-> "ALL",
       conditions |-> <<[tag |-> "str", chars |-> <<"7">>]>>],
      [id |-> "r2", matchPolicy |-> "ALL",
       conditions |-> <<[tag |-> "str", chars |-> <<"1">>]>>]>>

RuleIds == {Rules[i].id : i \in DOMAIN Rules}

WorkerIds == {"w1", "w2"}

IdleWorker == [pc |-> "idle", ev |-> "none", n |-> 0, rule |-> 0]

\* evaluate(rule, event): the conditions combined by the match policy.
evaluate(rule, ev) ==
    LET holds(i) == passes(rule.conditions[i], ev) = Return(TRUE)
    IN CASE rule.matchPolicy = "ALL" -> \A i \in DOMAIN rule.conditions : holds(i)
         [] rule.matchPolicy = "ANY" -> \E i \in DOMAIN rule.conditions : holds(i)
         [] rule.matchPolicy = "NONE" -> \A i \in DOMAIN rule.conditions : ~holds(i)

InsertWithoutCheck(record, key) ==
    [won |-> TRUE, record |-> record \cup {key}]

\* The atomic check-and-set on the DispatchRecord: the key is inserted, and
\* the caller wins only if it was absent.
CheckAndSet(record, key) ==
    [won |-> key \notin record, record |-> record \cup {key}]

EngineInit ==
    /\ queue = <<>>
    /\ submitted = [e \in EventIds |-> 0]
    /\ eventState = [e \in EventIds |-> "NONE"]
    /\ doneAt = [e \in EventIds |-> 0]
    /\ workers = [w \in WorkerIds |-> IdleWorker]
    /\ dispatchRecord = {}
    /\ sent = [k \in EventIds \X RuleIds |-> <<>>]

\* submitEvent(event): a no-op for an event that is already DONE, otherwise
\* the delivery is enqueued.
SubmitEvent(e) ==
    /\ submitted[e] < MaxSubmits
    /\ submitted' = [submitted EXCEPT ![e] = @ + 1]
    /\ IF eventState[e] = "DONE"
       THEN UNCHANGED <<queue, eventState>>
       ELSE /\ Len(queue) < MaxQueue
            /\ queue' = Append(queue, [id |-> e, n |-> submitted[e] + 1])
            /\ eventState' = [eventState EXCEPT ![e] = IF @ = "NONE" THEN "PENDING" ELSE @]
    /\ UNCHANGED <<doneAt, workers, dispatchRecord, sent>>
    /\ UNCHANGED <<filterVars, cardVars>>

\* An idle worker takes the delivery at the head of the queue.
Take(w) ==
    /\ workers[w].pc = "idle"
    /\ queue # <<>>
    /\ workers' = [workers EXCEPT ![w] =
                      [pc |-> "evaluate", ev |-> Head(queue).id, n |-> Head(queue).n,
                       rule |-> 1]]
    /\ queue' = Tail(queue)
    /\ eventState' = [eventState EXCEPT ![Head(queue).id] =
                         IF @ = "DONE" THEN @ ELSE "EVALUATING"]
    /\ UNCHANGED <<submitted, doneAt, dispatchRecord, sent>>
    /\ UNCHANGED <<filterVars, cardVars>>

\* The worker evaluates its current rule; on a match it claims the key and
\* goes on to dispatch only if it won the claim.
EvaluateRule(w) ==
    /\ workers[w].pc = "evaluate"
    /\ workers[w].rule <= Len(Rules)
    /\ LET rule == Rules[workers[w].rule]
           key == <<workers[w].ev, rule.id>>
           cas == CheckAndSet(dispatchRecord, key)
       IN IF evaluate(rule, EngineEvent(workers[w].ev))
          THEN /\ dispatchRecord' = cas.record
               /\ workers' = [workers EXCEPT ![w] =
                                 IF cas.won THEN [@ EXCEPT !.pc = "dispatch"]
                                 ELSE [@ EXCEPT !.rule = @ + 1]]
          ELSE /\ workers' = [workers EXCEPT ![w].rule = @ + 1]
               /\ UNCHANGED dispatchRecord
    /\ UNCHANGED <<queue, submitted, eventState, doneAt, sent>>
    /\ UNCHANGED <<filterVars, cardVars>>

\* The worker invokes the rule's actions (the external notification call).
Dispatch(w) ==
    /\ workers[w].pc = "dispatch"
    /\ LET key == <<workers[w].ev, Rules[workers[w].rule].id>>
       IN sent' = [sent EXCEPT ![key] = Append(@, workers[w].n)]
    /\ workers' = [workers EXCEPT ![w] = [@ EXCEPT !.pc = "evaluate", !.rule = @ + 1]]
    /\ UNCHANGED <<queue, submitted, eventState, doneAt, dispatchRecord>>
    /\ UNCHANGED <<filterVars, cardVars>>

\* After the last rule the event is DONE and the worker is idle again.
Finish(w) ==
    /\ workers[w].pc = "evaluate"
    /\ workers[w].rule > Len(Rules)
    /\ LET e == workers[w].ev
       IN /\ eventState' = [eventState EXCEPT ![e] = "DONE"]
          /\ doneAt' = [doneAt EXCEPT ![e] = IF eventState[e] = "DONE" THEN @
                                              ELSE submitted[e]]
    /\ workers' = [workers EXCEPT ![w] = IdleWorker]
    /\ UNCHANGED <<queue, submitted, dispatchRecord, sent>>
    /\ UNCHANGED <<filterVars, cardVars>>

EngineNext ==
    \/ \E e \in EventIds : SubmitEvent(e)
    \/ \E w \in WorkerIds : Take(w)
    \/ \E w \in WorkerIds : EvaluateRule(w)
    \/ \E w \in WorkerIds : Dispatch(w)
    \/ \E w \in WorkerIds : Finish(w)

\* ------------------------------------------------- specifications
\* The rule filter evaluated on every option and event.
InitFilter == FilterInit /\ CardIdle /\ EngineInit

SpecFilter == InitFilter /\ [][FilterNext]_vars

\* The card builder called on every group and event.
InitCard == CardInit /\ FilterIdle /\ EngineInit

SpecCard == InitCard /\ [][CardNext]_vars

\* The rule engine with its workers.
InitEngine == EngineInit /\ FilterIdle /\ CardIdle

SpecEngine == InitEngine /\ [][EngineNext]_vars

Init == FilterInit /\ CardInit /\ EngineInit

Next == FilterNext \/ CardNext \/ EngineNext

Spec == Init /\ [][Next]_vars

\* ------------------------------------------------ filter properties
Called == passesResult # NotCalled

RECURSIVE StripZeros(_)
StripZeros(chars) ==
    IF Len(chars) > 1 /\ chars[1] = "0" THEN StripZeros(Tail(chars)) ELSE chars

\* The option denotes GroupType value n: the integer n itself, or a text that
\* is n's decimal form up to leading zeros.
Denotes(opt, n) ==
    \/ opt.tag = "int" /\ opt.n = n
    \/ opt.tag = "str" /\ StripZeros(opt.chars) = ToDecimal(n)

OptionValid(opt) == \E n \in GroupTypeValues : Denotes(opt, n)

OptionValue(opt) == GroupTypeMember(CHOOSE n \in GroupTypeValues : Denotes(opt, n))

\* C1: with the option missing, not an integer, or an integer that is no
\* GroupType member, passes returns False for every event and raises nothing.
C1_InvalidOptionReturnsFalse ==
    (Called /\ ~OptionValid(option)) => passesResult = Return(FALSE)

C1_Witness ==
    /\ Called
    /\ option = NoneVal
    /\ Truthy(event.group) /\ Truthy(event.group.issue_type)
    /\ passesResult = Return(FALSE)

\* C2: group unset, groups non-empty, option valid: passes returns True iff
\* some group of groups has the option's issue type.
C2_MergedFanOut ==
    (Called /\ OptionValid(option) /\ ~Truthy(event.group) /\ Truthy(event.groups))
    => passesResult =
         Return(\E i \in DOMAIN event.groups.items :
                   event.groups.items[i].issue_type = OptionValue(option))

C2_Witness ==
    /\ Called
    /\ option.tag = "str" /\ option.chars \in TYPE_CHOICES
    /\ event.group = NoneVal
    /\ Truthy(event.groups) /\ Len(event.groups.items) = 2
    /\ event.groups.items[1].issue_type # OptionValue(option)
    /\ event.groups.items[2].issue_type = OptionValue(option)
    /\ passesResult = Return(TRUE)

\* C3 as stated: whenever event.group is set the result is
\* (value == event.group.issue_type), whatever groups holds.
C3_GroupSetDecides ==
    (Called /\ OptionValid(option) /\ Truthy(event.group))
    => passesResult = Return(OptionValue(option) = event.group.issue_type)

\* C3 amended: whenever event.group is set and has an issue type, the result
\* is (value == event.group.issue_type), whatever groups holds; a group
\* without an issue type is treated like an unset group.
C3_GroupWithTypeDecides ==
    /\ (Called /\ OptionValid(option) /\ Truthy(event.group)
            /\ Truthy(event.group.issue_type))
       => passesResult = Return(OptionValue(option) = event.group.issue_type)
    /\ (Called /\ OptionValid(option) /\ Truthy(event.group)
            /\ ~Truthy(event.group.issue_type))
       => passesResult =
            Return(Truthy(event.groups)
                   /\ \E i \in DOMAIN event.groups.items :
                         event.groups.items[i].issue_type = OptionValue(option))

C3_Witness ==
    /\ Called
    /\ OptionValid(option)
    /\ Truthy(event.group) /\ Truthy(event.group.issue_type)
    /\ event.group.issue_type # OptionValue(option)
    /\ Truthy(event.groups)
    /\ event.groups.items[1].issue_type = OptionValue(option)
    /\ passesResult = Return(FALSE)

\* C5: an event with no group at all (group unset, groups empty or unset)
\* makes passes return False, as a value, for every option.
C5_NoGroupReturnsFalse ==
    (Called /\ ~Truthy(event.group) /\ ~Truthy(event.groups))
    => passesResult = Return(FALSE)

C5_Witness ==
    /\ Called
    /\ OptionValid(option)
    /\ event.group = NoneVal
    /\ event.groups = List(<<>>)
    /\ passesResult = Return(FALSE)

\* -------------------------------------------- card builder properties
\* The builder was constructed with an event, as its signature requires;
\* every action payload reads self.event.
HasEvent == Truthy(builder.event)

\* The reversed form of a state-toggle action: a Submit carrying its payload.
IsSubmit(a, title, action_type) ==
    /\ a.type = "SUBMIT"
    /\ a.title = title
    /\ a.data.payload.actionType = action_type

\* The forward form: a ShowCard whose embedded input-choice card submits the payload.
IsShowCard(a, title, action_type) ==
    /\ a.type = "SHOW_CARD"
    /\ a.title = title
    /\ a.card.text.tag = "Input.ChoiceSet"
    /\ Len(a.card.actions) = 1
    /\ a.card.actions[1].type = "SUBMIT"
    /\ a.card.actions[1].data.payload.actionType = action_type

\* C4: get_ignore_action(status) yields the "stop ignoring" Submit action with
\* actionType UNRESOLVE exactly for IGNORED, and for every other status the
\* "ignore" ShowCard action whose input-choice card submits actionType IGNORE.
C4_IgnoreActionReversedIffIgnored ==
    (cardCall.fn = "get_ignore_action" /\ HasEvent)
    => /\ cardResult.kind = "return"
       /\ IF cardCall.status = "IGNORED"
          THEN IsSubmit(cardResult.value, IssueConstants("STOP_IGNORING"), "UNRESOLVE")
          ELSE IsShowCard(cardResult.value, IssueConstants("IGNORE"), "IGNORE")

C4_Witness ==
    /\ cardCall.fn = "get_ignore_action"
    /\ cardCall.status = "IGNORED"
    /\ HasEvent
    /\ cardResult.kind = "return"
    /\ cardResult.value.type = "SUBMIT"

\* C7: get_resolve_action(status) yields the unresolve Submit action with
\* actionType UNRESOLVE exactly for RESOLVED, and for every other status the
\* resolve ShowCard action whose card submits actionType RESOLVE.
C7_ResolveActionReversedIffResolved ==
    (cardCall.fn = "get_resolve_action" /\ HasEvent)
    => /\ cardResult.kind = "return"
       /\ IF cardCall.status = "RESOLVED"
          THEN IsSubmit(cardResult.value, IssueConstants("UNRESOLVE"), "UNRESOLVE")
          ELSE IsShowCard(cardResult.value, IssueConstants("RESOLVE"), "RESOLVE")

C7_Witness ==
    /\ cardCall.fn = "get_resolve_action"
    /\ cardCall.status = "IGNORED"
    /\ HasEvent
    /\ cardResult.kind = "return"
    /\ cardResult.value.type = "SHOW_CARD"

\* The choices are "Me" followed by one choice per team, slugs ascending.
MeThenTeamsBySlug(choices, teams) ==
    /\ choices.tag = "list"
    /\ Len(choices.items) = 1 + Cardinality(teams)
    /\ choices.items[1] = MeChoice
    /\ {choices.items[i] : i \in 2..Len(choices.items)} = {TeamChoice(t) : t \in teams}
    /\ \A i, j \in 2..Len(choices.items) :
          i < j => choices.items[i].text.slug < choices.items[j].text.slug

\* C8: get_assign_action yields the Unassign Submit action (actionType
\* UNASSIGN) iff the group has an assignee; otherwise the Assign ShowCard
\* action whose choices are "Me" then the project's teams by slug, default "Me".
C8_AssignActionReversedIffAssigned ==
    (cardCall.fn = "get_assign_action" /\ HasEvent)
    => /\ cardResult.kind = "return"
       /\ IsSubmit(cardResult.value, IssueConstants("UNASSIGN"), "UNASSIGN")
            <=> Truthy(builder.group.assignee)
       /\ ~Truthy(builder.group.assignee)
            => /\ IsShowCard(cardResult.value, IssueConstants("ASSIGN"), "ASSIGN")
               /\ MeThenTeamsBySlug(cardResult.value.card.text.choices,
                                    builder.group.teams)
               /\ cardResult.value.card.text.default_choice = MeChoice.value

C8_Witness ==
    /\ cardCall.fn = "get_assign_action"
    /\ HasEvent
    /\ builder.group.assignee = NoneVal
    /\ builder.group.teams = Teams
    /\ cardResult.kind = "return"
    /\ cardResult.value.type = "SHOW_CARD"
    /\ Len(cardResult.value.card.text.choices.items) = 1 + Cardinality(Teams)

Reversed(a) == a.type = "SUBMIT" /\ a.data.payload.actionType = "UNRESOLVE"

\* C10: get_issue_actions yields exactly three actions, resolve then ignore
\* then assign; resolve is reversed only for RESOLVED, ignore only for
\* IGNORED, so the two are never both reversed.
C10_ThreeActionsOneReversal ==
    (cardCall.fn = "get_issue_actions" /\ HasEvent)
    => /\ cardResult.kind = "return"
       /\ Len(cardResult.value.items) = 1
       /\ LET actions == cardResult.value.items[1].actions
          IN /\ Len(actions) = 3
             /\ actions[1].title \in {IssueConstants("RESOLVE"), IssueConstants("UNRESOLVE")}
             /\ actions[2].title \in {IssueConstants("IGNORE"), IssueConstants("STOP_IGNORING")}
             /\ actions[3].title \in {IssueConstants("ASSIGN"), IssueConstants("UNASSIGN")}
             /\ Reversed(actions[1]) <=> builder.group.status = "RESOLVED"
             /\ Reversed(actions[2]) <=> builder.group.status = "IGNORED"
             /\ ~(Reversed(actions[1]) /\ Reversed(actions[2]))

C10_Witness ==
    /\ cardCall.fn = "get_issue_actions"
    /\ HasEvent
    /\ builder.group.status = "IGNORED"
    /\ cardResult.kind = "return"
    /\ Reversed(cardResult.value.items[1].actions[2])
    /\ ~Reversed(cardResult.value.items[1].actions[1])

\* What a field of the card is, read off the block itself.
FieldKind(block) ==
    IF block.type = "Container" THEN "actions"
    ELSE IF block.type = "ColumnSet" THEN "footer"
    ELSE IF block.type = "TextBlock" /\ block.text.tag = "ASSIGNEE_NOTE" THEN "assignee_note"
    ELSE IF block.type = "TextBlock" /\ block.size = "MEDIUM" THEN "description"
    ELSE "other"

FieldKinds(fields) == [i \in DOMAIN fields |-> FieldKind(fields[i])]

\* C11: in every card build produces, the assignee note is present iff the
\* assign action is in its Unassign form, and the fields are, in this order:
\* the description if there is one, the footer, the assignee note if there
\* is one, and the action set last.
C11_AssigneeNoteIffUnassign ==
    (cardCall.fn = "build" /\ HasEvent)
    => /\ cardResult.kind = "return"
       /\ LET fields == cardResult.value.fields
              kinds == FieldKinds(fields)
              hasNote == \E i \in DOMAIN kinds : kinds[i] = "assignee_note"
              hasDescription == \E i \in DOMAIN kinds : kinds[i] = "description"
          IN /\ Len(fields) >= 2
             /\ kinds[Len(kinds)] = "actions"
             /\ hasNote <=> IsSubmit(fields[Len(fields)].items[1].actions[3],
                                     IssueConstants("UNASSIGN"), "UNASSIGN")
             /\ hasNote <=> Truthy(builder.group.assignee)
             /\ hasDescription <=> Truthy(cardCall.description_text)
             /\ kinds = (IF hasDescription THEN <<"description">> ELSE <<>>)
                        \o <<"footer">>
                        \o (IF hasNote THEN <<"assignee_note">> ELSE <<>>)
                        \o <<"actions">>

C11_Witness ==
    /\ cardCall.fn = "build"
    /\ HasEvent
    /\ Truthy(cardCall.description_text)
    /\ Truthy(builder.group.assignee)
    /\ cardResult.kind = "return"
    /\ FieldKinds(cardResult.value.fields)
         = <<"description", "footer", "assignee_note", "actions">>

\* ------------------------------------------------ engine properties
\* C6: for every (event id, rule id) the rule's actions are invoked at most
\* once, whatever the submissions and however the workers interleave, and no
\* submission made after the event was DONE ever invokes them.
C6_AtMostOnceDispatch ==
    \A e \in EventIds : \A r \in RuleIds :
        /\ Len(sent[<<e, r>>]) <= 1
        /\ eventState[e] = "DONE"
             => \A i \in DOMAIN sent[<<e, r>>] : sent[<<e, r>>][i] <= doneAt[e]

\* e2 was submitted twice, both deliveries were worked on, one by each worker,
\* and rule r1 fired for it once.
C6_Witness ==
    /\ submitted["e2"] = 2
    /\ eventState["e2"] = "DONE"
    /\ Len(sent[<<"e2", "r1">>]) = 1
    /\ Len(sent[<<"e2", "r2">>]) = 1
    /\ sent[<<"e2", "r1">>][1] # sent[<<"e2", "r2">>][1]

====
